---- MODULE Spec2Model ----
(***************************************************************************)
(* hdifinder: search of the index of an HD-wallet address.                 *)
(*                                                                         *)
(* main (src/src/main.rs) loads a SearchConfig, computes the number of     *)
(* slices, builds the wallet from the mnemonic and runs one closure per    *)
(* slice on the rayon pool.  Each closure builds its ExecutionConf with    *)
(* get_executor_config, scans it with executor and, on a match, prints it  *)
(* and exits the process.                                                  *)
(*                                                                         *)
(* Machine integers are scaled down: usize has USizeBits bits instead of   *)
(* 64, and the first index for which hdpath refuses to build a path        *)
(* (the hardened bit, 2^31) is HardenedBit.  Addresses are drawn from a    *)
(* two-letter alphabet.                                                    *)
(***************************************************************************)
EXTENDS Integers, Sequences, FiniteSets

\* ------------------------------------------------------------------ scale

\* width of usize (models.rs: pub start: usize), scaled down from 64
USizeBits == 3

\* first index that AccountHDPath::address_at rejects (main.rs:126), scaled
\* down from 2^31
HardenedBit == 4

\* largest start index load_config is given
MaxStart == 3

\* largest chunksize load_config is given
MaxChunk == 3

\* largest number of indices at which the wallet yields the searched address
MaxMatches == 2

\* largest size of the rayon thread pool
MaxThreads == 2

USizeMod == 2 ^ USizeBits

Index == 0 .. (USizeMod - 1)

\* the addresses the model distinguishes: the searched one and another one
Target == "addrA"

Other == "addrB"

Addresses == {Target, Other}

\* the address kinds, in the order address_compute returns them
Kinds == <<"p2pkh", "p2wpkh", "p2shwpkh">>

\* ----------------------------------------------------------------- wallet

\* what the key derivation and address encoding yield at a valid index: the
\* three address strings (p2pkh, p2wpkh, p2shwpkh)
NoMatchTriple == <<Other, Other, Other>>

Triples == [1 .. 3 -> Addresses]

\* wallets of the search runs: the searched address occurs at no more than
\* MaxMatches indices, as a p2pkh address or as both segwit forms
SearchPatterns == {<<Target, Other, Other>>, <<Other, Target, Target>>}

SingleWallets(patterns) ==
    {[i \in 0 .. (HardenedBit - 1) |-> IF i = j THEN p ELSE NoMatchTriple] :
        j \in 0 .. (HardenedBit - 1), p \in patterns}

MultiWallets ==
    {[i \in 0 .. (HardenedBit - 1) |-> IF i \in S THEN <<Target, Other, Other>> ELSE NoMatchTriple] :
        S \in {X \in SUBSET (0 .. (HardenedBit - 1)) : Cardinality(X) >= 2 /\ Cardinality(X) <= MaxMatches}}

EmptyWallet == [i \in 0 .. (HardenedBit - 1) |-> NoMatchTriple]

Wallets == {EmptyWallet} \cup SingleWallets(SearchPatterns) \cup MultiWallets

\* wallets of the single executor calls: every combination of kinds at one
\* index, and the search patterns at two
AllPatterns == Triples \ {NoMatchTriple}

PairWallets ==
    {[i \in 0 .. (HardenedBit - 1) |-> IF i = j1 THEN p1 ELSE IF i = j2 THEN p2 ELSE NoMatchTriple] :
        j1 \in 0 .. (HardenedBit - 1), j2 \in 0 .. (HardenedBit - 1),
        p1 \in SearchPatterns, p2 \in SearchPatterns}

ScanWallets == {EmptyWallet} \cup SingleWallets(AllPatterns) \cup PairWallets

\* ------------------------------------------------------------- derivation

\* i.try_into().unwrap() and address_at(0, index).unwrap(): the path exists
\* for the non-hardened indices only, otherwise the unwrap panics
DeriveOk(i) == i < HardenedBit

\* address_compute: the (kind, address) pairs of the key at index i
address_compute(wallet, i) == [k \in 1 .. 3 |-> <<Kinds[k], wallet[i][k]>>]

\* ------------------------------------------------------------- executor

ResNone == [tag |-> "None", index |-> 0, value |-> "", kind |-> ""]

ResPanic == [tag |-> "Panic", index |-> 0, value |-> "", kind |-> ""]

ResRunning == [tag |-> "Running", index |-> 0, value |-> "", kind |-> ""]

ResSome(i, v, k) == [tag |-> "Some", index |-> i, value |-> v, kind |-> k]

\* the inner loop: position of the first address equal to `address`, 0 if none
FirstEqual(addresses, address) ==
    IF \E k \in 1 .. 3 : addresses[k][2] = address
    THEN CHOOSE k \in 1 .. 3 :
            /\ addresses[k][2] = address
            /\ \A j \in 1 .. (k - 1) : addresses[j][2] # address
    ELSE 0

\* the state of a running executor: next index, end, indices derived so far
ExecutorStart(execution_config) ==
    [i |-> execution_config.start, end |-> execution_config.end,
     visited |-> <<>>, result |-> ResRunning]

\* the loop body with the index of the match reported one too high
ExecutorStepOffByOne(address, wallet, s) ==
    IF s.i >= s.end
    THEN [s EXCEPT !.result = ResNone]
    ELSE IF ~DeriveOk(s.i)
    THEN [s EXCEPT !.visited = Append(@, s.i), !.result = ResPanic]
    ELSE LET addresses == address_compute(wallet, s.i)
             m == FirstEqual(addresses, address)
         IN IF m # 0
            THEN [s EXCEPT !.visited = Append(@, s.i),
                           !.result = ResSome(s.i + 1, addresses[m][2], addresses[m][1])]
            ELSE [s EXCEPT !.visited = Append(@, s.i), !.i = s.i + 1]

\* one iteration of the outer loop of executor (or its exit)
ExecutorStep(address, wallet, s) ==
    IF s.i >= s.end
    THEN [s EXCEPT !.result = ResNone]
    ELSE IF ~DeriveOk(s.i)
    THEN [s EXCEPT !.visited = Append(@, s.i), !.result = ResPanic]
    ELSE LET addresses == address_compute(wallet, s.i)
             m == FirstEqual(addresses, address)
         IN IF m # 0
            THEN [s EXCEPT !.visited = Append(@, s.i),
                           !.result = ResSome(s.i, addresses[m][2], addresses[m][1])]
            ELSE [s EXCEPT !.visited = Append(@, s.i), !.i = s.i + 1]

RECURSIVE ExecutorLoop(_, _, _)
ExecutorLoop(address, wallet, s) ==
    IF s.result.tag # "Running" THEN s
    ELSE ExecutorLoop(address, wallet, ExecutorStep(address, wallet, s))

\* executor(address, wallet_config, execution_config): the whole call
executor(address, wallet, execution_config) ==
    ExecutorLoop(address, wallet, ExecutorStart(execution_config))

\* ----------------------------------------------------- get_executor_config

\* usize arithmetic: the value kept, and whether it left the range
Wrap(x) == (x + USizeMod * USizeMod) % USizeMod

Overflows(x) == x < 0 \/ x >= USizeMod

get_executor_config(config, iteration) ==
    LET prod == iteration * config.chunksize
        cstart == Wrap(prod)
        diff == config.end - cstart
        remaining == Wrap(diff)
        cend == IF remaining < config.chunksize
                THEN cstart + remaining
                ELSE cstart + config.chunksize
    IN [start |-> cstart, end |-> Wrap(cend),
        overflow |-> Overflows(prod) \/ Overflows(diff) \/ Overflows(cend),
        underflow |-> Overflows(diff),
        short |-> remaining < config.chunksize]

\* ------------------------------------------------------------------ state

VARIABLES
    overflowChecks, \* the build panics on integer overflow (debug) or wraps (release)
    nthreads,       \* size of the rayon pool
    pc,             \* position of main
    config,         \* SearchConfig
    slices,         \* main: slices
    wallet,         \* what the WalletConf derives at each valid index
    task,           \* state of the closure of each slice
    derived,        \* number of derivations attempted at each index
    stdout,         \* the matches printed
    ex              \* a single executor call: its arguments and its loop

vars == <<overflowChecks, nthreads, pc, config, slices, wallet, task, derived, stdout, ex>>

NoConfig == [start |-> 0, end |-> 0, chunksize |-> 0, address |-> ""]

NoConf == [start |-> 0, end |-> 0, overflow |-> FALSE, underflow |-> FALSE, short |-> FALSE]

PendingTask == [st |-> "pending", conf |-> NoConf, res |-> ResRunning, visited |-> <<>>]

ExecutorCall(address, conf) ==
    [address |-> address, conf |-> conf, run |-> ExecutorStart(conf)]

IdleExecutor == ExecutorCall("", NoConf)

Init ==
    /\ overflowChecks \in BOOLEAN
    /\ nthreads \in 1 .. MaxThreads
    /\ pc = "start"
    /\ config = NoConfig
    /\ slices = 0
    /\ wallet = EmptyWallet
    /\ task = <<>>
    /\ derived = [i \in Index |-> 0]
    /\ stdout = <<>>
    /\ ex = IdleExecutor

\* ------------------------------------------------------------------- main

\* load_config: start, end, chunksize and address from the arguments (the
\* defaults are ordinary values); exit(1) without an address
load_config ==
    /\ pc = "start"
    /\ \E hasAddress \in BOOLEAN :
        IF hasAddress
        THEN \E s \in 0 .. MaxStart, e \in Index, c \in 0 .. MaxChunk :
                /\ config' = [start |-> s, end |-> e, chunksize |-> c, address |-> Target]
                /\ pc' = "loaded"
        ELSE /\ pc' = "exit1"
             /\ UNCHANGED config
    /\ UNCHANGED <<overflowChecks, nthreads, slices, wallet, task, derived, stdout, ex>>

\* slices rounded up, so that a shorter last chunk is dispatched
main_slices_ceil ==
    /\ pc = "loaded"
    /\ IF config.chunksize = 0 \/ (overflowChecks /\ config.end < config.start)
       THEN /\ pc' = "panicked"
            /\ UNCHANGED slices
       ELSE /\ slices' = (Wrap(config.end - config.start) + config.chunksize - 1) \div config.chunksize
            /\ pc' = "planned"
    /\ UNCHANGED <<overflowChecks, nthreads, config, wallet, task, derived, stdout, ex>>

\* slices without the division by chunksize: one slice per index
main_slices_nodiv ==
    /\ pc = "loaded"
    /\ IF config.chunksize = 0 \/ (overflowChecks /\ config.end < config.start)
       THEN /\ pc' = "panicked"
            /\ UNCHANGED slices
       ELSE /\ slices' = Wrap(config.end - config.start)
            /\ pc' = "planned"
    /\ UNCHANGED <<overflowChecks, nthreads, config, wallet, task, derived, stdout, ex>>

\* let slices = (config.end - config.start) / config.chunksize;
main_slices ==
    /\ pc = "loaded"
    /\ IF config.chunksize = 0 \/ (overflowChecks /\ config.end < config.start)
       THEN /\ pc' = "panicked"
            /\ UNCHANGED slices
       ELSE /\ slices' = Wrap(config.end - config.start) \div config.chunksize
            /\ pc' = "planned"
    /\ UNCHANGED <<overflowChecks, nthreads, config, wallet, task, derived, stdout, ex>>

\* the mnemonic argument, get_mnemonic, to_seed and the WalletConf; then the
\* parallel iterator over 0..slices starts
main_mnemonic ==
    /\ pc = "planned"
    /\ \E mnemonic \in {"absent", "invalid", "valid"} :
        IF mnemonic = "valid"
        THEN \E w \in Wallets :
                /\ wallet' = w
                /\ task' = [t \in 1 .. slices |-> PendingTask]
                /\ pc' = "running"
        ELSE /\ pc' = "exit1"
             /\ UNCHANGED <<wallet, task>>
    /\ UNCHANGED <<overflowChecks, nthreads, config, slices, derived, stdout, ex>>

\* threads of the pool that hold a match they have not exited with yet
Busy == {t \in DOMAIN task : task[t].st \in {"matched", "printed"}}

AddDerived(d, visited) ==
    [i \in Index |-> d[i] + Cardinality({n \in 1 .. Len(visited) : visited[n] = i})]

\* a closure that moves the start of the shared configuration past its chunk
worker_scan_cursor(t) ==
    /\ pc = "running"
    /\ t \in DOMAIN task
    /\ task[t].st = "pending"
    /\ Cardinality(Busy) < nthreads
    /\ LET conf == get_executor_config(config, t - 1)
           run == executor(config.address, wallet, conf)
       IN /\ task' = [task EXCEPT ![t] =
                      [st |-> CASE run.result.tag = "Some" -> "matched"
                                [] run.result.tag = "None" -> "none"
                                [] OTHER -> "panicked",
                       conf |-> conf, res |-> run.result, visited |-> run.visited]]
          /\ derived' = AddDerived(derived, run.visited)
          /\ config' = [config EXCEPT !.start = conf.end]
    /\ UNCHANGED <<overflowChecks, nthreads, pc, slices, wallet, stdout, ex>>

\* the closure of slice t - 1 up to the return of executor: a free thread
\* of the pool takes the slice, builds its ExecutionConf and scans it
worker_scan(t) ==
    /\ pc = "running"
    /\ t \in DOMAIN task
    /\ task[t].st = "pending"
    /\ Cardinality(Busy) < nthreads
    /\ LET conf == get_executor_config(config, t - 1)
           run == executor(config.address, wallet, conf)
       IN IF overflowChecks /\ conf.overflow
          THEN /\ task' = [task EXCEPT ![t] = [st |-> "panicked", conf |-> conf, res |-> ResPanic,
                                                visited |-> <<>>]]
               /\ UNCHANGED derived
          ELSE /\ task' = [task EXCEPT ![t] =
                      [st |-> CASE run.result.tag = "Some" -> "matched"
                                [] run.result.tag = "None" -> "none"
                                [] OTHER -> "panicked",
                       conf |-> conf, res |-> run.result, visited |-> run.visited]]
               /\ derived' = AddDerived(derived, run.visited)
    /\ UNCHANGED <<overflowChecks, nthreads, pc, config, slices, wallet, stdout, ex>>

\* a print that a thread still makes after another one has ended the search
worker_print_late(t) ==
    /\ pc \in {"running", "found"}
    /\ t \in DOMAIN task
    /\ task[t].st = "matched"
    /\ stdout' = Append(stdout, task[t].res)
    /\ task' = [task EXCEPT ![t].st = "printed"]
    /\ UNCHANGED <<overflowChecks, nthreads, pc, config, slices, wallet, derived, ex>>

\* println!("address {} found at index {}. address type: {}", ...)
worker_print(t) ==
    /\ pc = "running"
    /\ t \in DOMAIN task
    /\ task[t].st = "matched"
    /\ stdout' = Append(stdout, task[t].res)
    /\ task' = [task EXCEPT ![t].st = "printed"]
    /\ UNCHANGED <<overflowChecks, nthreads, pc, config, slices, wallet, derived, ex>>

\* exit(0): the process ends, whatever the other threads are doing
worker_exit(t) ==
    /\ pc = "running"
    /\ t \in DOMAIN task
    /\ task[t].st = "printed"
    /\ pc' = "found"
    /\ UNCHANGED <<overflowChecks, nthreads, config, slices, wallet, task, derived, stdout, ex>>

\* for_each that returns as soon as one closure has returned, without waiting
\* for the others
for_each_return_early ==
    /\ pc = "running"
    /\ \E t \in DOMAIN task : task[t].st \in {"none", "panicked"}
    /\ \A t \in DOMAIN task : task[t].st \in {"none", "panicked", "pending"}
    /\ pc' = IF \E t \in DOMAIN task : task[t].st = "panicked" THEN "panicked" ELSE "exhausted"
    /\ UNCHANGED <<overflowChecks, nthreads, config, slices, wallet, task, derived, stdout, ex>>

\* for_each returns once every closure has returned; rayon resumes the panic
\* of a closure on the calling thread, otherwise main returns
for_each_return ==
    /\ pc = "running"
    /\ \A t \in DOMAIN task : task[t].st \in {"none", "panicked"}
    /\ pc' = IF \E t \in DOMAIN task : task[t].st = "panicked" THEN "panicked" ELSE "exhausted"
    /\ UNCHANGED <<overflowChecks, nthreads, config, slices, wallet, task, derived, stdout, ex>>

Next ==
    \/ load_config
    \/ main_slices
    \/ main_mnemonic
    \/ \E t \in 1 .. USizeMod : worker_scan(t)
    \/ \E t \in 1 .. USizeMod : worker_print(t)
    \/ \E t \in 1 .. USizeMod : worker_exit(t)
    \/ for_each_return

Spec == Init /\ [][Next]_vars

\* ------------------------------------------------- a single executor call

\* executor called on any ExecutionConf, for either address, on a wallet
InitScan ==
    /\ overflowChecks = FALSE
    /\ nthreads = 1
    /\ pc = "executor"
    /\ config = NoConfig
    /\ slices = 0
    /\ wallet \in ScanWallets
    /\ task = <<>>
    /\ derived = [i \in Index |-> 0]
    /\ stdout = <<>>
    /\ \E a \in Addresses, s \in Index, e \in Index :
        ex = ExecutorCall(a, [start |-> s, end |-> e, overflow |-> FALSE, underflow |-> FALSE,
                              short |-> FALSE])

\* one iteration of `for i in start..end`, or the return after it
executor_iteration ==
    /\ pc = "executor"
    /\ ex.run.result.tag = "Running"
    /\ ex' = [ex EXCEPT !.run = ExecutorStep(ex.address, wallet, ex.run)]
    /\ UNCHANGED <<overflowChecks, nthreads, pc, config, slices, wallet, task, derived, stdout>>

NextScan == executor_iteration

SpecScan == InitScan /\ [][NextScan]_vars

\* ----------------------------------------------------------------- claims

\* main has computed slices
Planned == pc \in {"planned", "running", "found", "exhausted"}

\* the search has run its workers (the wallet exists)
Searching == pc \in {"running", "found", "exhausted"} \/ (pc = "panicked" /\ task # <<>>)

\* the arguments are a range and a chunk size as the search contract wants them
ValidRange == config.address # "" /\ config.start <= config.end /\ config.chunksize > 0

\* the chunks main dispatches, in order: get_executor_config(config, i), i in 0..slices
PlanOf == [t \in 1 .. slices |-> get_executor_config(config, t - 1)]

\* the wallet yields the searched address at index i
HasTarget(i) == DeriveOk(i) /\ \E k \in 1 .. 3 : wallet[i][k] = config.address

\* the indices of [start, end) at which the wallet yields the searched address
InRangeMatches == {i \in config.start .. (config.end - 1) : HasTarget(i)}

Min(a, b) == IF a <= b THEN a ELSE b

\* C1: for start <= end and chunksize > 0 the chunks the search dispatches are
\* contiguous, do not overlap and cover [start, end) exactly: the first starts
\* at start, each ends where the next starts, the last ends at end, the last
\* is no longer than chunksize and every other one has length chunksize.
C1_PlanCoversRange ==
    (Planned /\ ValidRange) =>
        /\ (slices = 0 => config.start = config.end)
        /\ (slices > 0 =>
                /\ PlanOf[1].start = config.start
                /\ PlanOf[slices].end = config.end
                /\ PlanOf[slices].end - PlanOf[slices].start <= config.chunksize)
        /\ \A t \in 1 .. (slices - 1) :
                /\ PlanOf[t].end = PlanOf[t + 1].start
                /\ PlanOf[t].end - PlanOf[t].start = config.chunksize

\* C2: when the searched address is produced at exactly one index i of
\* [start, end), the search ends by reporting a match at index i, with the
\* matched address and its kind.
C2_UniqueMatchReported ==
    (Searching /\ pc # "running" /\ ValidRange /\ Cardinality(InRangeMatches) = 1) =>
        /\ pc = "found"
        /\ stdout # <<>>
        /\ \A n \in 1 .. Len(stdout) :
                /\ stdout[n].index \in InRangeMatches
                /\ stdout[n].value = config.address
                /\ \E k \in 1 .. 3 :
                        /\ stdout[n].kind = Kinds[k]
                        /\ wallet[stdout[n].index][k] = config.address

\* C3: when the searched address is produced at no index of [start, end), the
\* search reports no match, also when it is produced at an index outside the
\* range.
C3_NoMatchOutsideRange ==
    (ValidRange /\ InRangeMatches = {}) =>
        /\ stdout = <<>>
        /\ pc # "found"
        /\ \A t \in DOMAIN task : task[t].st \notin {"matched", "printed"}

\* C4: the number of chunks dispatched for [start, end) and chunksize > 0 is
\* ceil((end - start) / chunksize).
C4_ChunkCountIsCeiling ==
    (Planned /\ ValidRange) =>
        slices = (config.end - config.start + config.chunksize - 1) \div config.chunksize

\* C5: the chunk computed for chunk number i (from 0) is
\* [start + i * chunksize, min(start + (i + 1) * chunksize, end)).
C5_ChunkOffsetByStart ==
    ValidRange =>
        \A t \in DOMAIN task :
            task[t].st # "pending" =>
                /\ task[t].conf.start = config.start + (t - 1) * config.chunksize
                /\ task[t].conf.end = Min(config.start + t * config.chunksize, config.end)

\* C6: a search with chunksize = 0 fails with an InvalidConfiguration error
\* before any chunk is scanned; it never divides by zero (no panic).
C6_ZeroChunkRejected ==
    (config.address # "" /\ config.chunksize = 0) =>
        /\ pc \in {"loaded", "invalid_configuration"}
        /\ \A i \in Index : derived[i] = 0

\* C7: when end <= start the chunk plan is empty and the search returns none
\* without any derivation.
C7_EmptyRangeNoWork ==
    (config.address # "" /\ config.chunksize > 0 /\ config.end <= config.start) =>
        /\ pc \notin {"panicked", "found"}
        /\ (Planned => slices = 0)
        /\ \A i \in Index : derived[i] = 0

\* the indices of the chunk of the executor call that have an address equal
\* to the searched one
CallMatches ==
    {i \in ex.conf.start .. (ex.conf.end - 1) :
        DeriveOk(i) /\ \E k \in 1 .. 3 : wallet[i][k] = ex.address}

LowestCallMatch == CHOOSE i \in CallMatches : \A j \in CallMatches : i <= j

\* the indices derived so far are start, start + 1, ... in this order
AscendingVisit ==
    \A n \in 1 .. Len(ex.run.visited) : ex.run.visited[n] = ex.conf.start + n - 1

\* what C8 says of a call that has ended
ScanResultRight ==
    /\ (CallMatches # {} =>
            /\ ex.run.result.tag = "Some"
            /\ ex.run.result.index = LowestCallMatch
            /\ ex.run.result.value = ex.address
            /\ \E k \in 1 .. 3 :
                    /\ ex.run.result.kind = Kinds[k]
                    /\ wallet[LowestCallMatch][k] = ex.address
                    /\ \A j \in 1 .. (k - 1) : wallet[LowestCallMatch][j] # ex.address)
    /\ (ex.run.result.tag = "None" <=> CallMatches = {})

\* C8: for every chunk [s, e) and address, executor visits the indices in
\* ascending order and returns the match at the lowest index of [s, e) that
\* has an equal address, with the first equal kind in the order p2pkh,
\* p2wpkh, p2shwpkh; it returns none exactly when no index of [s, e) has one.
C8_ScanLowestMatch ==
    /\ AscendingVisit
    /\ (ex.run.result.tag # "Running" => ScanResultRight)

\* the same for the chunks that end in the derivable indices: there the result
\* is as C8 says
C8_ScanInDomain ==
    (ex.run.result.tag # "Running" /\ ex.conf.end <= HardenedBit) => ScanResultRight

\* C9: no more than one match is printed per search, in every interleaving of
\* the workers, also when two workers both find a match.
C9_AtMostOneReport == ValidRange => Len(stdout) <= 1

\* a worker can take a step: a free thread takes a pending slice, or a thread
\* that holds a match prints it or exits
WorkerCanStep ==
    \/ \E t \in DOMAIN task : task[t].st = "pending" /\ Cardinality(Busy) < nthreads
    \/ \E t \in DOMAIN task : task[t].st \in {"matched", "printed"}

\* the coordinator can return from for_each
AllReturned == \A t \in DOMAIN task : task[t].st \in {"none", "panicked"}

Ended == Searching /\ pc # "running"

\* how the closure of slice t - 1 ends when it is run: from the inputs alone
ChunkOutcome(t) ==
    LET conf == get_executor_config(config, t - 1)
    IN IF overflowChecks /\ conf.overflow
       THEN "Panic"
       ELSE executor(config.address, wallet, conf).result.tag

\* C11: the verdict of a search (match found, or none) is the same under
\* every schedule of the workers: it is a function of the inputs alone. A
\* search ends in Found exactly when some dispatched chunk holds a match and
\* in Exhausted exactly when every dispatched chunk is scanned without one,
\* whichever worker runs first and whichever match is printed.
C11_VerdictDetermined ==
    Ended =>
        /\ (pc = "found" <=> \E t \in 1 .. slices : ChunkOutcome(t) = "Some")
        /\ (pc = "exhausted" <=> \A t \in 1 .. slices : ChunkOutcome(t) = "None")

\* two chunks hold a match, and the search has ended by reporting the one of
\* the higher chunk
C11_Witness ==
    /\ pc = "found"
    /\ \E t1, t2 \in DOMAIN task :
            /\ t1 < t2
            /\ ChunkOutcome(t1) = "Some"
            /\ ChunkOutcome(t2) = "Some"
            /\ stdout = <<task[t2].res>>

\* C12: every index a worker derives lies in the chunk assigned to it, and
\* every assigned chunk lies in the search range [start, end): no index below
\* start or at or above end is derived.
C12_DerivedWithinRange ==
    ValidRange =>
        /\ \A t \in DOMAIN task :
                task[t].st # "pending" =>
                    /\ \A n \in 1 .. Len(task[t].visited) :
                            /\ task[t].conf.start <= task[t].visited[n]
                            /\ task[t].visited[n] < task[t].conf.end
                    /\ config.start <= task[t].conf.start
                    /\ task[t].conf.end <= config.end
        /\ \A i \in Index : derived[i] > 0 => (config.start <= i /\ i < config.end)

\* the part of C12 that is about the worker alone: it derives inside its chunk
C12_DerivedWithinChunk ==
    \A t \in DOMAIN task :
        \A n \in 1 .. Len(task[t].visited) :
            /\ task[t].conf.start <= task[t].visited[n]
            /\ task[t].visited[n] < task[t].conf.end

\* the worker of slice t - 1 has met an index it cannot derive
DerivationFailed(t) ==
    \E n \in 1 .. Len(task[t].visited) : ~DeriveOk(task[t].visited[n])

\* C13: a derivation failure at one index affects that index only: the
\* worker that meets it goes on to the remaining indices of its chunk, and
\* neither it nor the coordinator crashes.
C13_DerivationFailureLocal ==
    ValidRange =>
        /\ pc # "panicked"
        /\ \A t \in DOMAIN task :
                (task[t].st # "pending" /\ DerivationFailed(t)) =>
                    /\ task[t].st # "panicked"
                    /\ Len(task[t].visited) = task[t].conf.end - task[t].conf.start

\* a dispatched worker has returned a match
SomeWorkerMatched == \E t \in DOMAIN task : task[t].res.tag = "Some"

\* the ends of a search are what C14 says they are
EndsAsClaimed ==
    /\ (pc = "found" => SomeWorkerMatched)
    /\ ((Ended /\ SomeWorkerMatched) => pc = "found")
    /\ (pc = "exhausted" <=> (Ended /\ \A t \in DOMAIN task : task[t].st = "none"))

\* the steps of a search are in the order C14 gives, and Found and Exhausted
\* are left by no step
StepsAsClaimed ==
    /\ pc \notin {"found", "exhausted"}
    /\ (pc' = "running" => pc \in {"planned", "running"})
    /\ (pc' \in {"found", "exhausted"} => pc = "running")

\* C14: a search goes Planning -> Running -> {Found, Exhausted}. It ends in
\* Found exactly when some dispatched worker returned a match, in Exhausted
\* exactly when every dispatched worker completed with none, and once Found
\* or Exhausted is reached nothing changes and nothing more is printed.
C14_StateMachine == [](EndsAsClaimed) /\ [][StepsAsClaimed]_vars

\* a search that has ended in Found while other workers had returned none
\* and others had not started
C14_Witness ==
    /\ pc = "found"
    /\ \E t \in DOMAIN task : task[t].st = "none"
    /\ \E t \in DOMAIN task : task[t].st = "pending"

\* C15: every match printed is valid and is the one its worker found: the
\* value is the searched address, the wallet yields it with the printed kind
\* at the printed index, and the index is the lowest matching one of the
\* chunk of the worker that printed it.
C15_ReportedMatchValid ==
    \A n \in 1 .. Len(stdout) :
        /\ stdout[n].tag = "Some"
        /\ stdout[n].value = config.address
        /\ DeriveOk(stdout[n].index)
        /\ \E k \in 1 .. 3 :
                /\ stdout[n].kind = Kinds[k]
                /\ wallet[stdout[n].index][k] = stdout[n].value
        /\ \E t \in DOMAIN task :
                /\ task[t].st = "printed"
                /\ task[t].res = stdout[n]
                /\ task[t].conf.start <= stdout[n].index
                /\ stdout[n].index < task[t].conf.end
                /\ \A j \in task[t].conf.start .. (stdout[n].index - 1) : ~HasTarget(j)

\* a match is printed that is not the lowest one of the range: a lower index
\* of [start, end) yields the searched address too
C15_Witness ==
    /\ ValidRange
    /\ stdout # <<>>
    /\ \E j \in InRangeMatches : j < stdout[1].index

\* the slots of the closures that a step changes
ChangedTasks == {t \in DOMAIN task : task'[t] # task[t]}

\* what a step of a running search leaves alone
WorkerFrame ==
    pc = "running" =>
        /\ wallet' = wallet
        /\ config' = config
        /\ slices' = slices
        /\ DOMAIN task' = DOMAIN task
        /\ Cardinality(ChangedTasks) <= 1
        /\ \A t \in ChangedTasks : task[t].st \in {"pending", "matched"}

\* C16: the wallet context and the search configuration are left unchanged by
\* every worker scan and every chunk computation for the whole search, and a
\* worker writes nothing that another worker reads: a step changes the slot
\* of one closure at most, and never one that has ended.
C16_ContextUnchanged == [][WorkerFrame]_vars

\* two workers have scanned their chunks with the same wallet and configuration
C16_Witness ==
    /\ pc = "running"
    /\ \E t1, t2 \in DOMAIN task :
            /\ t1 # t2
            /\ task[t1].st = "none"
            /\ task[t2].st = "matched"

\* C17: for start <= end and chunksize > 0 every chunk main dispatches has
\* length chunksize, and get_executor_config never takes its
\* remaining < chunksize branch for it.
C17_DispatchedChunksFull ==
    ValidRange =>
        \A t \in DOMAIN task :
            task[t].st # "pending" =>
                /\ task[t].conf.end - task[t].conf.start = config.chunksize
                /\ ~task[t].conf.short

\* a chunk is dispatched for a range that starts above 0 and whose length is
\* no multiple of chunksize
C17_Witness ==
    /\ ValidRange
    /\ config.start > 0
    /\ (config.end - config.start) % config.chunksize # 0
    /\ \E t \in DOMAIN task : t = slices /\ task[t].st # "pending"

\* C18: for start <= end and chunksize > 0, when no match exists the indices
\* derived over the whole search are exactly
\* 0 .. floor((end - start) / chunksize) * chunksize - 1, each one once.
C18_ScannedPrefix ==
    (Ended /\ ValidRange /\ ~SomeWorkerMatched) =>
        \A i \in Index :
            derived[i] = IF i < ((config.end - config.start) \div config.chunksize) * config.chunksize
                         THEN 1 ELSE 0

\* the same for the searches whose range ends in the derivable indices
C18_ScannedPrefixInDomain ==
    (Ended /\ ValidRange /\ ~SomeWorkerMatched /\ config.end <= HardenedBit) =>
        \A i \in Index :
            derived[i] = IF i < ((config.end - config.start) \div config.chunksize) * config.chunksize
                         THEN 1 ELSE 0

\* C19: for start <= end and chunksize > 0 the subtraction
\* config.end - iteration * config.chunksize never underflows for an
\* iteration main dispatches, and the chunk has start <= end <= config.end.
C19_NoUnderflow ==
    ValidRange =>
        \A t \in DOMAIN task :
            task[t].st # "pending" =>
                /\ ~task[t].conf.underflow
                /\ task[t].conf.start <= task[t].conf.end
                /\ task[t].conf.end <= config.end

\* the last dispatched iteration of a range that starts above 0, where the
\* subtraction leaves the least
C19_Witness ==
    /\ ValidRange
    /\ config.start > 0
    /\ slices >= 2
    /\ task # <<>>
    /\ task[slices].st # "pending"
    /\ ~task[slices].conf.underflow

====
